---- MODULE Spec2Model ----
(***************************************************************************)
(* A model of the dataselectors library: the selector algebra of base.py,  *)
(* the selectors of selectors.py (DataSelectorQuery and its folding,       *)
(* UniqueElements, Sample) and the utilities of utils.py.                  *)
(*                                                                         *)
(* A table (pandas DataFrame) is a sequence of rows; a row is a record     *)
(* with its identifier (index label) and its column values.  An index      *)
(* (pandas Index) is a sequence of identifiers.  A query expression is a   *)
(* sequence of tokens, built by the code by concatenation and evaluated by *)
(* a parser with the precedence pandas gives ~, & and |.                   *)
(***************************************************************************)
EXTENDS Integers, Sequences, FiniteSets, TLC

VARIABLES df, sel, out, rng

vars == <<df, sel, out, rng>>

\* ------------------------------------------------------------------ bounds
MaxRows == 3
MaxOps == 2
MaxSels == 2
RngStates == 3
MaxSeed == 1

\* ------------------------------------------------------- generic helpers
Range(s) == {s[i] : i \in 1..Len(s)}

RECURSIVE Flatten(_)
Flatten(ss) == IF ss = << >> THEN << >> ELSE Head(ss) \o Flatten(Tail(ss))

RECURSIVE SortedSeq(_)
SortedSeq(S) ==
    IF S = {} THEN << >>
    ELSE LET m == CHOOSE x \in S : \A y \in S : x <= y
         IN <<m>> \o SortedSeq(S \ {m})

Count(s, x) == Cardinality({i \in 1..Len(s) : s[i] = x})

Max(a, b) == IF a > b THEN a ELSE b

\* Some(x) / None: an optional value (Python's None) as a sequence of length <= 1.
None == << >>
Some(x) == <<x>>

\* ------------------------------------------------------------------ tables
Ids == 0..(MaxRows - 1)

\* The data of the row with identifier i: the columns "a" and "g", and a column
\* "c" that holds the same value in every row.
Row(i) == [id |-> i, a |-> i % 2, g |-> i \div 2, c |-> 0]

RECURSIVE Perms(_)
Perms(S) ==
    IF S = {} THEN {<< >>}
    ELSE UNION {{<<x>> \o p : p \in Perms(S \ {x})} : x \in S}

\* The tables a client passes in: rows with distinct identifiers, in any order.
Tables == UNION {{[k \in 1..Len(p) |-> Row(p[k])] : p \in Perms(S)} : S \in SUBSET Ids}

\* df.index
Index(t) == [k \in 1..Len(t) |-> t[k].id]

\* df.loc[idx]: for each label of idx in turn, the rows of the table with that label.
Loc(t, idx) == Flatten([k \in 1..Len(idx) |-> SelectSeq(t, LAMBDA r : r.id = idx[k])])

\* data.iloc[positions] (0-based positions)
ILoc(t, pos) == [k \in 1..Len(pos) |-> t[pos[k] + 1]]

\* ------------------------------------------------------- query expressions
\* Tokens.  A comparison `col` op val is one token.
LP == <<"(">>
RP == <<")">>
AMP == <<"&">>
BAR == <<"|">>
TILDE == <<"~">>
Cmp(col, op, val) == <<"cmp", col, op, val>>

Column(r, col) == IF col = "a" THEN r.a ELSE IF col = "g" THEN r.g ELSE r.c

CmpHolds(tok, r) ==
    LET v == Column(r, tok[2]) IN
    CASE tok[3] = "==" -> v = tok[4]
      [] tok[3] = ">=" -> v >= tok[4]
      [] tok[3] = ">"  -> v > tok[4]
      [] tok[3] = "<=" -> v <= tok[4]
      [] tok[3] = "<"  -> v < tok[4]

\* The expression evaluator behind df.query: `|` binds weaker than `&`, which binds
\* weaker than `~`; parentheses group.  Each parser returns the value of the longest
\* expression of its level at the head of the tokens, and the tokens left over.
RECURSIVE ParseOr(_, _), ParseOrTail(_, _, _), ParseAnd(_, _), ParseAndTail(_, _, _), ParseUnary(_, _)
ParseUnary(toks, r) ==
    IF toks = << >> THEN [v |-> FALSE, rest |-> << >>]
    ELSE IF Head(toks) = TILDE THEN
        LET x == ParseUnary(Tail(toks), r) IN [v |-> ~x.v, rest |-> x.rest]
    ELSE IF Head(toks) = LP THEN
        LET x == ParseOr(Tail(toks), r) IN
        [v |-> x.v, rest |-> IF x.rest # << >> THEN Tail(x.rest) ELSE << >>]
    ELSE [v |-> CmpHolds(Head(toks), r), rest |-> Tail(toks)]

ParseAndTail(acc, toks, r) ==
    IF toks # << >> /\ Head(toks) = AMP THEN
        LET x == ParseUnary(Tail(toks), r) IN ParseAndTail(acc /\ x.v, x.rest, r)
    ELSE [v |-> acc, rest |-> toks]

ParseAnd(toks, r) == LET x == ParseUnary(toks, r) IN ParseAndTail(x.v, x.rest, r)

ParseOrTail(acc, toks, r) ==
    IF toks # << >> /\ Head(toks) = BAR THEN
        LET x == ParseAnd(Tail(toks), r) IN ParseOrTail(acc \/ x.v, x.rest, r)
    ELSE [v |-> acc, rest |-> toks]

ParseOr(toks, r) == LET x == ParseAnd(toks, r) IN ParseOrTail(x.v, x.rest, r)

\* df.query(expr): the rows for which the expression holds, in table order.
DfQuery(t, expr) == SelectSeq(t, LAMBDA r : ParseOr(expr, r).v)

\* --------------------------------------------------------------- selectors
\* DataSelectorQuery(query)
DataSelectorQuery(q) == [kind |-> "Query", query |-> q]

\* IntersectionDataSelector(left_selector, right_selector)
IntersectionDataSelector(l, r) == [kind |-> "Intersection", left |-> l, right |-> r]

\* UnionDataSelector(left_selector, right_selector)
UnionDataSelector(l, r) == [kind |-> "Union", left |-> l, right |-> r]

\* ComplementedDataSelector(data_selector)
ComplementedDataSelector(s) == [kind |-> "Complement", inner |-> s]

\* UniqueElements(column_name, indexer); indexer is None or Some(function)
UniqueElements(col, ix) == [kind |-> "Unique", column |-> col, indexer |-> ix]

\* Sample(nmr_rows, base_selector, replace, seed); base_selector and seed are
\* None or Some(value)
Sample(n, base, replace, seed) ==
    [kind |-> "Sample", nmr_rows |-> n, base_selector |-> base,
     replace |-> replace, seed |-> seed]

\* Indexing functions a client passes to UniqueElements: lambda df: k, and
\* lambda df: len(df) - 1.
ConstIndexer(k) == <<"const", k>>
LastIndexer == <<"last">>
CallIndexer(ix, group) == IF ix[1] = "const" THEN ix[2] ELSE Len(group) - 1

\* ----------------------------------------------------------- random source
RngValues == 0..(RngStates - 1)

\* The global numpy random source is one number.  np.random.seed(seed) sets it
\* from the seed; np.random.seed(None) sets it from fresh operating-system
\* entropy, the next value of the sequence ent.
NpSeed(seed, st) ==
    IF seed = None
    THEN IF st.ent = << >> THEN [rng |-> 0, ent |-> << >>]
         ELSE [rng |-> Head(st.ent), ent |-> Tail(st.ent)]
    ELSE [rng |-> seed[1] % RngStates, ent |-> st.ent]

Remove(s, k) == [j \in 1..(Len(s) - 1) |-> IF j < k THEN s[j] ELSE s[j + 1]]

\* The permutation of items that generator state k stands for.
RECURSIVE Permutation(_, _)
Permutation(k, items) ==
    IF items = << >> THEN << >>
    ELSE LET i == (k % Len(items)) + 1
         IN <<items[i]>> \o Permutation(k \div Len(items), Remove(items, i))

\* n independent positions below size that generator state k stands for.
RECURSIVE Digits(_, _, _)
Digits(k, size, n) ==
    IF n = 0 THEN << >> ELSE <<k % size>> \o Digits(k \div size, size, n - 1)

\* np.random.choice(size, n, replace=replace): n positions in 0..size-1, decided
\* by the state of the random source; without replacement they are distinct.
NpChoice(size, n, replace, k) ==
    IF n = 0 THEN << >>
    ELSE IF replace THEN Digits(k, size, n)
    ELSE SubSeq(Permutation(k, [j \in 1..size |-> j - 1]), 1, n)

\* The state of the random source after a draw.
Advance(k) == (k + 1) % RngStates

\* --------------------------------------------------------------- evaluation
\* An evaluation threads the random source: st = [rng, ent].  Its result is
\* [val, err, rng, ent]; err is "" or the exception raised.
Ok(v, st) == [val |-> v, err |-> "", rng |-> st.rng, ent |-> st.ent]
Raise(e, st) == [val |-> << >>, err |-> e, rng |-> st.rng, ent |-> st.ent]
StateOf(x) == [rng |-> x.rng, ent |-> x.ent]

\* index[k] of Python: 0-based, negative k counts from the end.
HasPosition(s, k) == -Len(s) <= k /\ k < Len(s)
AtPosition(s, k) == IF k >= 0 THEN s[k + 1] ELSE s[Len(s) + k + 1]

\* Index.union: sorted, except that an empty or equal operand returns the other
\* unchanged; a label occurring several times keeps its larger count.
IndexUnion(l, r) ==
    IF r = << >> \/ l = r THEN l
    ELSE IF l = << >> THEN r
    ELSE LET labels == SortedSeq(Range(l) \cup Range(r))
         IN Flatten([k \in 1..Len(labels) |->
                [j \in 1..Max(Count(l, labels[k]), Count(r, labels[k])) |-> labels[k]]])

\* df.groupby(column): the sub-table of each distinct value, by ascending value.
GroupBy(t, col) ==
    LET keys == SortedSeq({Column(t[k], col) : k \in 1..Len(t)})
    IN [k \in 1..Len(keys) |-> SelectSeq(t, LAMBDA r : Column(r, col) = keys[k])]

\* UniqueElements.get_indices.selector: None is the IndexError
UniqueAt(index, k) == IF HasPosition(index, k) THEN Some(AtPosition(index, k)) ELSE None

\* UniqueSelector with the last row of a group where the code takes the first.
UniqueSelectorLast(s, group) ==
    IF s.indexer # None
    THEN UniqueAt(Index(group), CallIndexer(s.indexer[1], group))
    ELSE Some(Index(group)[Len(group)])

UniqueSelector(s, group) ==
    IF s.indexer # None
    THEN UniqueAt(Index(group), CallIndexer(s.indexer[1], group))
    ELSE Some(Index(group)[1])

\* df.groupby(column).apply(selector)
UniquePicks(s, groups) == [k \in 1..Len(groups) |-> UniqueSelector(s, groups[k])]

UniqueResult(picked, st) ==
    IF \E k \in 1..Len(picked) : picked[k] = None
    THEN Raise("IndexError", st)
    ELSE Ok([k \in 1..Len(picked) |-> picked[k][1]], st)

UniqueGetIndices(s, t, st) == UniqueResult(UniquePicks(s, GroupBy(t, s.column)), st)

\* The draw of Sample.apply and Sample.get_indices: np.random.seed(self.seed),
\* then np.random.choice over the pool.
Drawn(s, size, seeded) ==
    [pos |-> NpChoice(size, s.nmr_rows, s.replace, seeded.rng),
     rng |-> Advance(seeded.rng), ent |-> seeded.ent]

\* SampleDraw that draws from the random source as it is, where the code sets
\* it from the seed first.
SampleDrawAsIs(s, size, st) == Drawn(s, size, st)

SampleDraw(s, size, st) == Drawn(s, size, NpSeed(s.seed, st))

RECURSIVE GetIndices(_, _, _), Apply(_, _, _)
\* IntersectionRight with the right operand evaluated on the whole table and
\* met with the left result, where the code evaluates it on the left result.
Met(l, r) ==
    IF r.err # "" THEN r
    ELSE Ok(SelectSeq(r.val, LAMBDA x : x \in Range(l.val)), StateOf(r))

IntersectionRightWholeTable(s, t, l) ==
    IF l.err # "" THEN l ELSE Met(l, GetIndices(s.right, t, StateOf(l)))

\* IntersectionDataSelector.get_indices
IntersectionRight(s, t, l) ==
    IF l.err # "" THEN l ELSE GetIndices(s.right, Loc(t, l.val), StateOf(l))

IntersectionGetIndices(s, t, st) == IntersectionRight(s, t, GetIndices(s.left, t, st))

\* UnionDataSelector.get_indices
UnionResult(l, r) == IF r.err # "" THEN r ELSE Ok(IndexUnion(l.val, r.val), StateOf(r))

UnionRight(s, t, l) ==
    IF l.err # "" THEN l ELSE UnionResult(l, GetIndices(s.right, t, StateOf(l)))

UnionGetIndices(s, t, st) == UnionRight(s, t, GetIndices(s.left, t, st))

\* ComplementedDataSelector.get_indices
ComplementResult(t, i) ==
    IF i.err # "" THEN i
    ELSE Ok(SelectSeq(Index(t), LAMBDA x : x \notin Range(i.val)), StateOf(i))

ComplementGetIndices(s, t, st) == ComplementResult(t, GetIndices(s.inner, t, st))

\* Sample.get_indices
DrawnIndices(indices, d) == Ok([k \in 1..Len(d.pos) |-> indices[d.pos[k] + 1]], d)

SampleIndices(s, indices) ==
    IF indices.err # "" THEN indices
    ELSE IF Len(indices.val) < s.nmr_rows THEN indices
    ELSE DrawnIndices(indices.val, SampleDraw(s, Len(indices.val), StateOf(indices)))

\* SampleGetIndices returning the index of the whole table, where the code
\* returns the pool, when the pool is smaller than nmr_rows.
SampleIndicesOrTable(s, t, indices) ==
    IF indices.err # "" THEN indices
    ELSE IF Len(indices.val) < s.nmr_rows THEN Ok(Index(t), StateOf(indices))
    ELSE DrawnIndices(indices.val, SampleDraw(s, Len(indices.val), StateOf(indices)))

SampleGetIndicesWholeTable(s, t, st) ==
    SampleIndicesOrTable(s, t, IF s.base_selector # None
                               THEN GetIndices(s.base_selector[1], t, st)
                               ELSE Ok(Index(t), st))

SampleGetIndices(s, t, st) ==
    SampleIndices(s, IF s.base_selector # None
                     THEN GetIndices(s.base_selector[1], t, st)
                     ELSE Ok(Index(t), st))

\* Sample.apply
DrawnRows(data, d) == Ok(ILoc(data, d.pos), d)

\* SampleRows that also returns a pool of exactly nmr_rows rows undrawn, where
\* the code (and get_indices) draws from it.
SampleRowsInclusive(s, data) ==
    IF data.err # "" THEN data
    ELSE IF Len(data.val) <= s.nmr_rows THEN data
    ELSE DrawnRows(data.val, SampleDraw(s, Len(data.val), StateOf(data)))

SampleRows(s, data) ==
    IF data.err # "" THEN data
    ELSE IF Len(data.val) < s.nmr_rows THEN data
    ELSE DrawnRows(data.val, SampleDraw(s, Len(data.val), StateOf(data)))

SampleApply(s, t, st) ==
    SampleRows(s, IF s.base_selector # None
                  THEN Apply(s.base_selector[1], t, st)
                  ELSE Ok(t, st))

\* AbstractDataSelector.apply
Located(t, i) == IF i.err # "" THEN i ELSE Ok(Loc(t, i.val), StateOf(i))

AbstractApply(s, t, st) == Located(t, GetIndices(s, t, st))

\* get_indices of every selector class
GetIndices(s, t, st) ==
    CASE s.kind = "Query" -> Ok(Index(DfQuery(t, s.query)), st)
      [] s.kind = "Intersection" -> IntersectionGetIndices(s, t, st)
      [] s.kind = "Union" -> UnionGetIndices(s, t, st)
      [] s.kind = "Complement" -> ComplementGetIndices(s, t, st)
      [] s.kind = "Unique" -> UniqueGetIndices(s, t, st)
      [] s.kind = "Sample" -> SampleGetIndices(s, t, st)

\* apply of every selector class
Apply(s, t, st) ==
    CASE s.kind = "Query" -> Ok(DfQuery(t, s.query), st)
      [] s.kind = "Sample" -> SampleApply(s, t, st)
      [] OTHER -> AbstractApply(s, t, st)

\* ------------------------------------------------- the operators & | ~ < >
\* DataSelectorQuery.__and__ / AbstractDataSelector.__and__
AbstractAnd(a, b) == IntersectionDataSelector(a, b)

\* QueryAnd without the parentheses around its operands.
QueryAndBare(a, b) ==
    IF b.kind = "Query"
    THEN DataSelectorQuery(<<LP>> \o a.query \o <<AMP>> \o b.query \o <<RP>>)
    ELSE AbstractAnd(a, b)

QueryAnd(a, b) ==
    IF b.kind = "Query"
    THEN DataSelectorQuery(<<LP, LP>> \o a.query \o <<RP, AMP, LP>> \o b.query \o <<RP, RP>>)
    ELSE AbstractAnd(a, b)

\* DataSelectorQuery.__or__ / AbstractDataSelector.__or__
AbstractOr(a, b) == UnionDataSelector(a, b)

QueryOr(a, b) ==
    IF b.kind = "Query"
    THEN DataSelectorQuery(<<LP, LP>> \o a.query \o <<RP, BAR, LP>> \o b.query \o <<RP, RP>>)
    ELSE AbstractOr(a, b)

\* __invert__ of DataSelectorQuery, ComplementedDataSelector, AbstractDataSelector
QueryInvert(a) == DataSelectorQuery(<<TILDE, LP>> \o a.query \o <<RP>>)

\* ComplementInvert that wraps once more, where the code unwraps.
ComplementInvertWrapped(a) == ComplementedDataSelector(a)

ComplementInvert(a) == a.inner

AbstractInvert(a) == ComplementedDataSelector(a)

\* Sample.with_base_selector
WithBaseSelector(s, base) == Sample(s.nmr_rows, Some(base), s.replace, s.seed)

\* Sample.__lt__ and Sample.__gt__
SampleLt(s, other) == WithBaseSelector(s, other)

SampleGt(s, other) == WithBaseSelector(s, other)

\* The expressions a & b, a | b, ~a: Python calls the method of a's class.
And(a, b) == IF a.kind = "Query" THEN QueryAnd(a, b) ELSE AbstractAnd(a, b)

Or(a, b) == IF a.kind = "Query" THEN QueryOr(a, b) ELSE AbstractOr(a, b)

Invert(a) ==
    CASE a.kind = "Query" -> QueryInvert(a)
      [] a.kind = "Complement" -> ComplementInvert(a)
      [] OTHER -> AbstractInvert(a)

\* The expressions a < b and a > b: Python calls a's method when a's class defines
\* it (only Sample does), and otherwise the reflected method of b (b > a for a < b,
\* b < a for a > b).  None is the TypeError when neither is a Sample.
Lt(a, b) ==
    IF a.kind = "Sample" THEN Some(SampleLt(a, b))
    ELSE IF b.kind = "Sample" THEN Some(SampleGt(b, a))
    ELSE None

Gt(a, b) ==
    IF a.kind = "Sample" THEN Some(SampleGt(a, b))
    ELSE IF b.kind = "Sample" THEN Some(SampleLt(b, a))
    ELSE None

\* ---------------------------------------------------------------- utilities
\* The result of a utility: [val, err, rng, ent] and seen, what each selector's
\* get_indices returned in turn.
Done(v, e, seen, st) == [val |-> v, err |-> e, rng |-> st.rng, ent |-> st.ent, seen |-> seen]

\* Assign that keeps a label already set, where the code overwrites it.
AssignFirstWins(labels, indices, label) ==
    [x \in DOMAIN labels |->
        IF x \in Range(indices) /\ labels[x] = None THEN Some(label) ELSE labels[x]]

\* labels[indices] = label
Assign(labels, indices, label) ==
    [x \in DOMAIN labels |-> IF x \in Range(indices) THEN Some(label) ELSE labels[x]]

\* The loop of label_rows and of group_rows: labels[selector.get_indices(df)] = label
\* for each (label, selector) in turn.
RECURSIVE SetLabels(_, _, _, _, _)
SetLabel(t, items, labels, seen, i) ==
    IF i.err # "" THEN Done(<< >>, i.err, seen, i)
    ELSE SetLabels(t, Tail(items), Assign(labels, i.val, Head(items).label),
                   Append(seen, i.val), StateOf(i))

SetLabels(t, items, labels, seen, st) ==
    IF items = << >> THEN Done(labels, "", seen, st)
    ELSE SetLabel(t, items, labels, seen, GetIndices(Head(items).selector, t, st))

\* pd.Series(index=df.index): every row unset
EmptySeries(t) == [x \in Range(Index(t)) |-> None]

\* label_rows(df, labelled_selectors); labelled_selectors is the dict's items in
\* iteration order
LabelRows(t, labelled, st) == SetLabels(t, labelled, EmptySeries(t), << >>, st)

\* The loop of are_disjoint_groups: indices.append(data_selection.get_indices(df))
RECURSIVE AllIndices(_, _, _, _)
Collect(t, ss, seen, i) ==
    IF i.err # "" THEN Done(<< >>, i.err, seen, i)
    ELSE AllIndices(t, Tail(ss), Append(seen, i.val), StateOf(i))

AllIndices(t, ss, seen, st) ==
    IF ss = << >> THEN Done(seen, "", seen, st)
    ELSE Collect(t, ss, seen, GetIndices(Head(ss), t, st))

\* len(all_indices) == len(np.unique(all_indices))
NoDuplicate(all_indices) == Len(all_indices) = Cardinality(Range(all_indices))

\* are_disjoint_groups(df, dataselectors); np.hstack of no arrays is a ValueError
Disjoint(ss, indices) ==
    IF indices.err # "" THEN Done(FALSE, indices.err, indices.seen, indices)
    ELSE IF ss = << >>
    THEN Done(FALSE, "ValueError: need at least one array to concatenate", << >>, indices)
    ELSE Done(NoDuplicate(Flatten(indices.val)), "", indices.seen, indices)

AreDisjointGroups(t, ss, st) == Disjoint(ss, AllIndices(t, ss, << >>, st))

\* enumerate(dataselectors)
Enumerate(ss) == [k \in 1..Len(ss) |-> [label |-> k - 1, selector |-> ss[k]]]

\* group_rows(df, dataselectors, allow_overlap).  In the result, checked is what
\* the disjointness check saw, seen what the labelling loop saw, and labelled
\* whether the labelling loop was entered.
Grouped(d, r, labelled) ==
    [val |-> r.val, err |-> r.err, rng |-> r.rng, ent |-> r.ent, seen |-> r.seen,
     checked |-> d.seen, labelled |-> labelled]

GroupChecked(t, ss, d) ==
    IF d.err # "" THEN Grouped(d, Done(<< >>, d.err, << >>, d), FALSE)
    ELSE IF ~d.val
    THEN Grouped(d, Done(<< >>, "ValueError: The data selectors overlap.", << >>, d), FALSE)
    ELSE Grouped(d, SetLabels(t, Enumerate(ss), EmptySeries(t), << >>, StateOf(d)), TRUE)

\* GroupRows that checks for overlap when overlap is allowed, and not when it is
\* not allowed.
GroupRowsInverted(t, ss, allow_overlap, st) ==
    GroupChecked(t, ss, IF ~allow_overlap THEN Done(TRUE, "", << >>, st)
                        ELSE AreDisjointGroups(t, ss, st))

GroupRows(t, ss, allow_overlap, st) ==
    GroupChecked(t, ss, IF allow_overlap THEN Done(TRUE, "", << >>, st)
                        ELSE AreDisjointGroups(t, ss, st))

\* ------------------------------------------------------------ the client
\* What a client constructs directly: Age-like and RangeQuery-like comparisons on
\* the columns, a query string of the client's own, indexers, sample sizes, seeds.
A1 == Cmp("a", "==", 1)
A0 == Cmp("a", "==", 0)
G1 == Cmp("g", ">=", 1)
G0 == Cmp("g", "<", 1)
LeafQueries == {<<A1>>, <<G1>>, <<A1, BAR, G1>>}
Seeds == {None} \cup {Some(k) : k \in 0..MaxSeed}
Indexers == {None, Some(LastIndexer)} \cup {Some(ConstIndexer(k)) : k \in (-1)..MaxRows}
SampleSizes == 0..(MaxRows + 1)

\* The selectors a client combines the selector at hand with.
\* UniqueElements on the constant column selects the first row of the table it
\* is given.
FirstRow == UniqueElements("c", None)

Operands ==
    {DataSelectorQuery(<<A0>>),
     FirstRow,
     Sample(1, None, FALSE, Some(1))}

\* The selectors a client labels and groups rows with.
UtilOperands ==
    {DataSelectorQuery(<<G0>>),
     DataSelectorQuery(<<A1, BAR, G1>>),
     DataSelectorQuery(<<G1>>),
     Sample(1, None, FALSE, None),
     Sample(2, None, TRUE, Some(0))}

RECURSIVE Depth(_)
Depth(s) ==
    CASE s.kind \in {"Intersection", "Union"} -> 1 + Max(Depth(s.left), Depth(s.right))
      [] s.kind = "Complement" -> 1 + Depth(s.inner)
      [] s.kind = "Sample" ->
            IF s.base_selector = None THEN 0 ELSE 1 + Depth(s.base_selector[1])
      [] OTHER -> 0

\* the number of & | ~ in a query expression
QueryOps(q) == Cardinality({k \in 1..Len(q) : q[k] \in {AMP, BAR, TILDE}})

\* The client combines selectors it constructed (one combinator deep; ~ on
\* anything), and query expressions of at most MaxOps operators.
InBounds(s) == s.kind = "Query" => QueryOps(s.query) <= MaxOps

\* Selectors are constructed and combined first; a run ends with one call that
\* evaluates them (apply and get_indices, or a utility).
Building == out.op \in {"new", "and", "or", "invert", "lt", "gt", "with_base_selector"}

\* the number of unseeded Sample selectors in a selector: each reads the
\* operating system's entropy at most once per evaluation
RECURSIVE Unseeded(_)
Unseeded(s) ==
    CASE s.kind \in {"Intersection", "Union"} -> Unseeded(s.left) + Unseeded(s.right)
      [] s.kind = "Complement" -> Unseeded(s.inner)
      [] s.kind = "Sample" ->
            (IF s.seed = None THEN 1 ELSE 0)
            + (IF s.base_selector = None THEN 0 ELSE Unseeded(s.base_selector[1]))
      [] OTHER -> 0

Entropy(n) == [1..n -> RngValues]

\* The record of an operator expression: its operands and its result (None is a
\* TypeError).  before is the operand of the expression whose result this one
\* complements, when this is the second ~ in a row.
Built(op, l, r, res) == [op |-> op, left |-> l, right |-> r, result |-> res, before |-> None]

NewQuery(q) ==
    /\ Building
    /\ sel' = DataSelectorQuery(q)
    /\ out' = [op |-> "new"]
    /\ UNCHANGED <<df, rng>>

NewUniqueElements(col, ix) ==
    /\ Building
    /\ sel' = UniqueElements(col, ix)
    /\ out' = [op |-> "new"]
    /\ UNCHANGED <<df, rng>>

NewSample(n, replace, seed) ==
    /\ Building
    /\ sel' = Sample(n, None, replace, seed)
    /\ out' = [op |-> "new"]
    /\ UNCHANGED <<df, rng>>

\* sel & o
ClientAnd(o) ==
    /\ Building
    /\ Depth(sel) = 0
    /\ InBounds(And(sel, o))
    /\ sel' = And(sel, o)
    /\ out' = Built("and", sel, o, Some(sel'))
    /\ UNCHANGED <<df, rng>>

\* sel | o
ClientOr(o) ==
    /\ Building
    /\ Depth(sel) = 0
    /\ InBounds(Or(sel, o))
    /\ sel' = Or(sel, o)
    /\ out' = Built("or", sel, o, Some(sel'))
    /\ UNCHANGED <<df, rng>>

\* ~sel
ClientInvert ==
    /\ Building
    /\ InBounds(Invert(sel))
    /\ sel' = Invert(sel)
    /\ out' = [Built("invert", sel, sel, Some(sel')) EXCEPT
                  !.before = IF out.op = "invert" THEN Some(out.left) ELSE None]
    /\ UNCHANGED <<df, rng>>

\* sel < o
ClientLt(o) ==
    /\ Building
    /\ Depth(sel) = 0
    /\ Lt(sel, o) # None
    /\ InBounds(Lt(sel, o)[1])
    /\ sel' = Lt(sel, o)[1]
    /\ out' = Built("lt", sel, o, Some(sel'))
    /\ UNCHANGED <<df, rng>>

\* o > sel
ClientGt(o) ==
    /\ Building
    /\ Depth(sel) = 0
    /\ Gt(o, sel) # None
    /\ InBounds(Gt(o, sel)[1])
    /\ sel' = Gt(o, sel)[1]
    /\ out' = Built("gt", o, sel, Some(sel'))
    /\ UNCHANGED <<df, rng>>

\* sel.with_base_selector(o)
ClientWithBaseSelector(o) ==
    /\ Building
    /\ Depth(sel) = 0
    /\ sel.kind = "Sample"
    /\ InBounds(WithBaseSelector(sel, o))
    /\ sel' = WithBaseSelector(sel, o)
    /\ out' = Built("with_base_selector", sel, o, Some(sel'))
    /\ UNCHANGED <<df, rng>>

\* sel.apply(df), then sel.get_indices(df)
Evaluate ==
    /\ Building
    /\ \E ent \in Entropy(2 * Unseeded(sel)) :
       \E rows \in {Apply(sel, df, [rng |-> rng, ent |-> ent])} :
       \E ids \in {GetIndices(sel, df, StateOf(rows))} :
           /\ out' = [op |-> "evaluate", sel |-> sel,
                      rows |-> rows.val, rows_err |-> rows.err,
                      ids |-> ids.val, ids_err |-> ids.err]
           /\ rng' = ids.rng
           /\ UNCHANGED <<df, sel>>

\* Whether the client has evaluated its selector.
HasEvaluated == out.op \in {"evaluate", "evaluate_again"}

\* sel.apply(df), then sel.get_indices(df), once more.  The record keeps what the
\* first evaluation returned, and from, the state of the random source this one
\* started in.
EvaluateAgain ==
    /\ HasEvaluated
    /\ \E ent \in Entropy(2 * Unseeded(sel)) :
       \E rows \in {Apply(sel, df, [rng |-> rng, ent |-> ent])} :
       \E ids \in {GetIndices(sel, df, StateOf(rows))} :
           /\ out' = [op |-> "evaluate_again", sel |-> sel,
                      rows |-> rows.val, rows_err |-> rows.err,
                      ids |-> ids.val, ids_err |-> ids.err,
                      first_rows |-> IF out.op = "evaluate" THEN out.rows ELSE out.first_rows,
                      first_ids |-> IF out.op = "evaluate" THEN out.ids ELSE out.first_ids,
                      from |-> rng]
           /\ rng' = ids.rng
           /\ UNCHANGED <<df, sel>>

\* Between two evaluations the client evaluates another Sample, one without a
\* seed, on the same table: Sample(1).get_indices(df).
OtherSample ==
    /\ HasEvaluated
    /\ \E ent \in Entropy(1) :
       \E ids \in {GetIndices(Sample(1, None, FALSE, None), df, [rng |-> rng, ent |-> ent])} :
           /\ rng' = ids.rng
           /\ UNCHANGED <<df, sel, out>>

LabelOf(k) == <<"a", "b", "c", "d", "e">>[k]

SelectorLists == UNION {[1..n -> UtilOperands] : n \in 0..MaxSels}

\* dict(zip(labels, ss)).items()
Labelled(ss) == [k \in 1..Len(ss) |-> [label |-> LabelOf(k), selector |-> ss[k]]]

\* label_rows(df, {"a": ss[1], "b": ss[2], ...})
ClientLabelRows(ss) ==
    /\ Building
    /\ \E ent \in Entropy(1) :
       \E r \in {LabelRows(df, Labelled(ss), [rng |-> rng, ent |-> ent])} :
           /\ out' = [op |-> "label_rows", sels |-> ss, labels |-> r.val, err |-> r.err,
                      seen |-> r.seen]
           /\ rng' = r.rng
           /\ UNCHANGED <<df, sel>>

\* group_rows(df, ss, allow_overlap)
ClientGroupRows(ss, allow_overlap) ==
    /\ Building
    /\ \E ent \in Entropy(IF allow_overlap THEN 1 ELSE 2) :
       \E r \in {GroupRows(df, ss, allow_overlap, [rng |-> rng, ent |-> ent])} :
           /\ out' = [op |-> "group_rows", sels |-> ss, allow_overlap |-> allow_overlap,
                      labels |-> r.val, err |-> r.err, seen |-> r.seen,
                      checked |-> r.checked, labelled |-> r.labelled]
           /\ rng' = r.rng
           /\ UNCHANGED <<df, sel>>

\* are_disjoint_groups(df, ss)
ClientAreDisjointGroups(ss) ==
    /\ Building
    /\ \E ent \in Entropy(1) :
       \E r \in {AreDisjointGroups(df, ss, [rng |-> rng, ent |-> ent])} :
           /\ out' = [op |-> "are_disjoint_groups", sels |-> ss, disjoint |-> r.val,
                      err |-> r.err, seen |-> r.seen]
           /\ rng' = r.rng
           /\ UNCHANGED <<df, sel>>

Init ==
    /\ df \in Tables
    /\ sel = DataSelectorQuery(<<A1>>)
    /\ out = [op |-> "new"]
    /\ rng \in RngValues

\* A client that has not used the random source before.
InitFresh == Init /\ rng = 0

\* A client of the selector algebra.
Next ==
    \/ \E q \in LeafQueries : NewQuery(q)
    \/ \E ix \in {None, Some(ConstIndexer(1))} : NewUniqueElements("g", ix)
    \/ \E n \in 1..2, replace \in BOOLEAN, seed \in {None, Some(0)} : NewSample(n, replace, seed)
    \/ \E o \in Operands : ClientAnd(o)
    \/ \E o \in Operands : ClientOr(o)
    \/ ClientInvert
    \/ \E o \in Operands : ClientLt(o)
    \/ \E o \in Operands : ClientGt(o)
    \/ \E o \in Operands : ClientWithBaseSelector(o)
    \/ Evaluate

Spec == InitFresh /\ [][Next]_vars

\* A client of Sample.
NextSample ==
    \/ \E n \in SampleSizes, replace \in BOOLEAN, seed \in Seeds : NewSample(n, replace, seed)
    \/ \E o \in Operands : ClientWithBaseSelector(o)
    \/ Evaluate

SpecSample == Init /\ [][NextSample]_vars

\* A client that evaluates a Sample repeatedly, and other Samples in between.
NextRepeat ==
    \/ \E n \in 1..2, replace \in BOOLEAN, seed \in Seeds \ {None} : NewSample(n, replace, seed)
    \/ NewSample(1, FALSE, None)
    \/ \E o \in Operands : ClientWithBaseSelector(o)
    \/ Evaluate
    \/ EvaluateAgain
    \/ OtherSample

SpecRepeat == Init /\ [][NextRepeat]_vars

\* A client of UniqueElements.
NextUnique ==
    \/ \E col \in {"a", "g"}, ix \in Indexers : NewUniqueElements(col, ix)
    \/ Evaluate

SpecUnique == Init /\ [][NextUnique]_vars

\* A client of the utilities.
NextUtils ==
    \/ \E ss \in SelectorLists : ClientLabelRows(ss)
    \/ \E ss \in SelectorLists, allow_overlap \in BOOLEAN : ClientGroupRows(ss, allow_overlap)
    \/ \E ss \in SelectorLists : ClientAreDisjointGroups(ss)

SpecUtils == Init /\ [][NextUtils]_vars

\* ------------------------------------------------------------- properties
Evaluated == out.op = "evaluate" /\ out.rows_err = "" /\ out.ids_err = ""

RowIds(rows) == {r.id : r \in Range(rows)}

\* apply returned rows of the table, and exactly those get_indices names
SameSelection ==
    /\ Range(out.rows) \subseteq Range(df)
    /\ RowIds(out.rows) = Range(out.ids)

\* C1 as stated: for every selector S (a Sample with or without a seed included)
\* and every table T, S.apply(T) holds exactly the rows of T whose identifiers
\* S.get_indices(T) returns.
C1_ApplyMatchesGetIndices == Evaluated => SameSelection

\* C1: for every selector S in which every Sample has a seed, and every table
\* T, S.apply(T) holds exactly the rows of T whose identifiers S.get_indices(T)
\* returns.  (An unseeded Sample draws anew in each of the two calls.)
C1_SeededApplyMatchesGetIndices ==
    (Evaluated /\ Unseeded(out.sel) = 0) => SameSelection

\* a seeded Sample over a base selector that drew fewer rows than its pool has
C1_Witness ==
    /\ Evaluated
    /\ out.sel.kind = "Sample"
    /\ out.sel.seed # None
    /\ out.sel.base_selector # None
    /\ out.sel.replace
    /\ out.sel.nmr_rows = 2
    /\ Len(out.ids) = 2
    /\ Len(df) >= 2
    /\ SameSelection

\* The states an evaluation can start in, for a selector with n unseeded Samples.
Starts(n) == [rng : RngValues, ent : Entropy(n)]

\* B's identifiers on project(T, A's identifiers), A's result being l
OnSubset(b, t, l) == GetIndices(b, Loc(t, l.val), StateOf(l))

\* the first element of a sequence, if any
Leading(s) == IF s = << >> THEN << >> ELSE <<s[1]>>

ShortcutFrom(s, t, l) ==
    /\ l.err = ""
    /\ out.ids = OnSubset(s.right, t, l).val
    /\ s.right = FirstRow => out.ids = Leading(l.val)

\* C2: get_indices of IntersectionDataSelector(A, B) on T is B's get_indices on
\* the rows of T that A selects (for some outcome of the draws in A and B); with
\* B the selector of the first row of its table, that is the first row among those
\* A selects, not the first row of T.
C2_IntersectionLeftShortcut ==
    (out.op = "evaluate" /\ out.sel.kind = "Intersection" /\ out.ids_err = "")
        => \E st \in Starts(Unseeded(out.sel)) :
               ShortcutFrom(out.sel, df, GetIndices(out.sel.left, df, st))

\* A selects rows that do not include the first row of T; the intersection with
\* the first-row selector is the first row A selects
C2_Witness ==
    /\ Evaluated
    /\ out.sel = IntersectionDataSelector(UniqueElements("g", Some(ConstIndexer(1))), FirstRow)
    /\ Len(out.ids) = 1
    /\ out.ids[1] # df[1].id

IdSet(s, t) == Range(GetIndices(s, t, [rng |-> 0, ent |-> << >>]).val)

\* C3: for query selectors P and Q, P & Q is one query selector that selects the
\* identifier set of IntersectionDataSelector(P, Q), and P | Q one that selects
\* the identifier set of UnionDataSelector(P, Q), on every table.
C3_FoldedEqualsGeneric ==
    (out.op \in {"and", "or"} /\ out.left.kind = "Query" /\ out.right.kind = "Query")
        => /\ out.result[1].kind = "Query"
           /\ out.op = "and" =>
                IdSet(out.result[1], df) = IdSet(IntersectionDataSelector(out.left, out.right), df)
           /\ out.op = "or" =>
                IdSet(out.result[1], df) = IdSet(UnionDataSelector(out.left, out.right), df)

\* the client's own query a == 1 | g >= 1 folded with a == 0, on a table where
\* the parentheses decide the result
C3_Witness ==
    /\ out.op = "and"
    /\ out.left = DataSelectorQuery(<<A1, BAR, G1>>)
    /\ out.right = DataSelectorQuery(<<A0>>)
    /\ out.result[1].kind = "Query"
    /\ IdSet(out.result[1], df) # IdSet(DataSelectorQuery(<<A1, BAR, G1, AMP, A0>>), df)

SameOutcome(x, y) == x.err = y.err /\ Range(x.val) = Range(y.val)

SameRowsFrom(a, b, t, st) ==
    /\ SameOutcome(GetIndices(a, t, st), GetIndices(b, t, st))
    /\ SameOutcome(Apply(a, t, st), Apply(b, t, st))

\* C4: ~~S selects the same rows as S on every table (from the same state of the
\* random source), and ~ applied to a ComplementedDataSelector returns the
\* selector it wraps.
C4_DoubleComplement ==
    (out.op = "invert" /\ out.before # None)
        => /\ \A st \in Starts(Unseeded(out.before[1])) :
                  SameRowsFrom(out.result[1], out.before[1], df, st)
           /\ out.left.kind = "Complement" => out.result[1] = out.left.inner

\* ~~S for a generic S: the second ~ met a ComplementedDataSelector
C4_Witness ==
    /\ out.op = "invert"
    /\ out.before # None
    /\ out.left = ComplementedDataSelector(out.before[1])
    /\ out.result = out.before
    /\ Len(df) >= 2

\* The pools a Sample can draw from: the index of the table, or what its base
\* selector can return.
Pools(s, t) ==
    IF s.base_selector = None THEN {Index(t)}
    ELSE {GetIndices(s.base_selector[1], t, st).val : st \in Starts(Unseeded(s.base_selector[1]))}

SampleEvaluated == Evaluated /\ out.sel.kind = "Sample"

PoolUnchanged(pools) == out.ids \in pools /\ Index(out.rows) \in pools

PoolReordered(pools) ==
    /\ Range(out.ids) \in {Range(p) : p \in pools}
    /\ RowIds(out.rows) \in {Range(p) : p \in pools}
    /\ Len(out.ids) = out.sel.nmr_rows
    /\ Len(out.rows) = out.sel.nmr_rows

\* C5 as stated: a Sample of N rows whose pool has at most N rows (N equal to
\* the pool size included) returns the entire pool unchanged, with and without
\* a seed, with and without replacement.
C5_AtMostPoolReturnsPool ==
    (SampleEvaluated /\ \A p \in Pools(out.sel, df) : Len(p) <= out.sel.nmr_rows)
        => PoolUnchanged(Pools(out.sel, df))

\* C5: a Sample of N rows whose pool has fewer than N rows returns the entire
\* pool unchanged, with and without a seed, with and without replacement; from
\* a pool of exactly N rows it draws, and without replacement the draw is all
\* rows of the pool in the drawn order.
C5_SmallerPoolReturnsPool ==
    /\ (SampleEvaluated /\ \A p \in Pools(out.sel, df) : Len(p) < out.sel.nmr_rows)
           => PoolUnchanged(Pools(out.sel, df))
    /\ (SampleEvaluated /\ ~out.sel.replace
           /\ \A p \in Pools(out.sel, df) : Len(p) = out.sel.nmr_rows)
           => PoolReordered(Pools(out.sel, df))

\* a Sample over a base selector whose non-empty pool is smaller than N
C5_Witness ==
    /\ SampleEvaluated
    /\ out.sel.base_selector = Some(DataSelectorQuery(<<A0>>))
    /\ out.sel.nmr_rows = 2
    /\ Len(out.ids) = 1
    /\ Len(df) >= 2
    /\ PoolUnchanged(Pools(out.sel, df))

\* C6 as stated: for a Sample s and any selector u, the expressions s < u and
\* u > s and the call s.with_base_selector(u) all return the Sample with s's
\* nmr_rows, replace and seed whose base selector is u (u itself a Sample
\* included).
C6_BaseSelectorOperators ==
    /\ (out.op \in {"lt", "with_base_selector"} /\ out.left.kind = "Sample")
           => out.result = Some(Sample(out.left.nmr_rows, Some(out.right),
                                       out.left.replace, out.left.seed))
    /\ (out.op = "gt" /\ out.right.kind = "Sample")
           => out.result = Some(Sample(out.right.nmr_rows, Some(out.left),
                                       out.right.replace, out.right.seed))

\* The selectors, by position, whose returned identifiers include x.
Selecting(seen, x) == {k \in 1..Len(seen) : x \in Range(seen[k])}

LastOf(S) == CHOOSE k \in S : \A j \in S : j <= k

\* What each selector of a list returns on the table when none of them is an
\* unseeded Sample.
Returned(ss, t) == [k \in 1..Len(ss) |-> GetIndices(ss[k], t, [rng |-> 0, ent |-> << >>]).val]

Deterministic(ss) == \A k \in 1..Len(ss) : Unseeded(ss[k]) = 0

\* seen is what the selectors return, one entry per selector in order
SeenAll == 
    /\ Len(out.seen) = Len(out.sels)
    /\ Deterministic(out.sels) => out.seen = Returned(out.sels, df)

\* every row carries the label of the last selector that returned it, and no
\* label if none did; first is the label of the first selector
LastWins(first) ==
    /\ DOMAIN out.labels = Range(Index(df))
    /\ \A x \in DOMAIN out.labels :
          out.labels[x] = IF Selecting(out.seen, x) = {} THEN None
                          ELSE Some(first[LastOf(Selecting(out.seen, x))])

\* C7: label_rows, and group_rows with overlap allowed, give a row selected by
\* several selectors the label (position) of the last of them in iteration order,
\* and leave a row selected by none unset.
C7_LastSelectorWins ==
    /\ (out.op = "label_rows" /\ out.err = "")
           => SeenAll /\ LastWins([k \in 1..Len(out.sels) |-> LabelOf(k)])
    /\ (out.op = "group_rows" /\ out.allow_overlap /\ out.err = "")
           => SeenAll /\ LastWins([k \in 1..Len(out.sels) |-> k - 1])

\* rows 0, 1, 2 labelled with {a: rows 0 and 1, b: rows 1 and 2}: a, b, b
C7_Witness ==
    /\ out.op = "label_rows"
    /\ out.sels = <<DataSelectorQuery(<<G0>>), DataSelectorQuery(<<A1, BAR, G1>>)>>
    /\ Range(Index(df)) = {0, 1, 2}
    /\ out.labels[0] = Some("a")
    /\ out.labels[1] = Some("b")
    /\ out.labels[2] = Some("b")

\* two of the identifier sequences share an identifier
Overlapping(seen) ==
    \E j, k \in 1..Len(seen) : j < k /\ Range(seen[j]) \cap Range(seen[k]) # {}

\* the selectors of a group_rows call are not disjoint on the table
OverlapOnTable ==
    \/ Overlapping(out.checked)
    \/ Deterministic(out.sels) /\ Overlapping(Returned(out.sels, df))

\* C8: group_rows with allow_overlap = False on selectors that are not disjoint
\* on the table raises the ValueError and returns no labelling: the labelling
\* loop is not entered.
C8_OverlapRaises ==
    (out.op = "group_rows" /\ ~out.allow_overlap /\ OverlapOnTable)
        => /\ out.err = "ValueError: The data selectors overlap."
           /\ ~out.labelled
           /\ out.labels = << >>
           /\ out.seen = << >>

\* two overlapping queries, overlap not allowed
C8_Witness ==
    /\ out.op = "group_rows"
    /\ ~out.allow_overlap
    /\ out.sels = <<DataSelectorQuery(<<G0>>), DataSelectorQuery(<<A1, BAR, G1>>)>>
    /\ 1 \in Range(Index(df))
    /\ out.err = "ValueError: The data selectors overlap."
    /\ ~out.labelled

\* C9 as stated: are_disjoint_groups returns True exactly when the identifier
\* sets of the selectors are pairwise disjoint on the table, also when a selector
\* (a Sample with replacement) returns an identifier more than once.
C9_DisjointIffPairwiseDisjoint ==
    (out.op = "are_disjoint_groups" /\ out.err = "")
        => (out.disjoint <=> ~Overlapping(out.seen))

ValuesOf(t, col) == {Column(r, col) : r \in Range(t)}

\* the identifiers of the rows with value v in the column, in table order
GroupIds(t, col, v) == Index(SelectSeq(t, LAMBDA r : Column(r, col) = v))

\* the position the indexer returns for the group of value v
PositionIn(t, col, ix, v) == CallIndexer(ix, SelectSeq(t, LAMBDA r : Column(r, col) = v))

OnePerValue(ids, t, col, v) ==
    Cardinality({k \in 1..Len(ids) : ids[k] \in Range(GroupIds(t, col, v))}) = 1

PickedAt(ids, group, p) == (0 <= p /\ p < Len(group)) => group[p + 1] \in Range(ids)

OutOfRange(t, col, ix, v) ==
    ~(0 <= PositionIn(t, col, ix, v) /\ PositionIn(t, col, ix, v) < Len(GroupIds(t, col, v)))

\* C11 as stated: UniqueElements.get_indices (and apply) fails with the IndexError
\* whenever the indexer returns, for any group, a position that is not one of
\* the 0-based positions 0 .. (group row count - 1); no such group is skipped or
\* answered with some other row.
C11_OutOfRangeRaises ==
    (/\ out.op = "evaluate"
     /\ out.sel.kind = "Unique"
     /\ out.sel.indexer # None
     /\ \E v \in ValuesOf(df, out.sel.column) :
            OutOfRange(df, out.sel.column, out.sel.indexer[1], v))
        => out.ids_err = "IndexError" /\ out.rows_err = "IndexError"

\* a Sample with a seed whose pool is the same in every evaluation: the table,
\* or the result of a base selector that holds no Sample without a seed
SeededOnSamePool(s) ==
    /\ s.kind = "Sample"
    /\ s.seed # None
    /\ s.base_selector # None => Unseeded(s.base_selector[1]) = 0

\* C12: a Sample with a seed is deterministic: every repeated evaluation (apply,
\* get_indices) on the same pool returns what the first returned, whatever
\* draws and evaluations of other Samples happened on the shared random source
\* in between.
C12_SeededSampleDeterministic ==
    (out.op = "evaluate_again" /\ SeededOnSamePool(out.sel))
        => out.rows = out.first_rows /\ out.ids = out.first_ids

\* a seeded Sample that drew, evaluated again from a state of the random source
\* other than the one its own draw leaves
C12_Witness ==
    /\ out.op = "evaluate_again"
    /\ SeededOnSamePool(out.sel)
    /\ out.from # Advance(NpSeed(out.sel.seed, [rng |-> 0, ent |-> << >>]).rng)
    /\ Len(out.ids) = out.sel.nmr_rows
    /\ out.sel.nmr_rows >= 1
    /\ Len(df) > out.sel.nmr_rows
    /\ out.ids = out.first_ids

\* the index of the only selector that returned x in the labelling pass
OnlySelector(seen, x) ==
    /\ Cardinality(Selecting(seen, x)) <= 1
    /\ out.labels[x] = IF Selecting(seen, x) = {} THEN None
                       ELSE Some(LastOf(Selecting(seen, x)) - 1)

\* C13 as stated: whenever group_rows with allow_overlap = False returns a label
\* series, no row was returned by more than one selector in the labelling pass:
\* the group index of every row is the index of the only selector that returned
\* it, also with a selector that is an unseeded Sample.
C13_ReturnedGroupsDisjoint ==
    (out.op = "group_rows" /\ ~out.allow_overlap /\ out.err = "")
        => /\ ~Overlapping(out.seen)
           /\ \A x \in DOMAIN out.labels : OnlySelector(out.seen, x)

====
